---- MODULE Spec2Model ----
(***************************************************************************)
(* Model of data.py: the helpers _l2_normalize and                         *)
(* _normalize_localisations and the loader                                 *)
(* load_exbaboon_512_retrospection.                                        *)
(*                                                                         *)
(* Numbers.  A numpy float is modelled by an exact rational <<n, d>> in    *)
(* lowest terms with d > 0.  The non-finite floats are the pairs with      *)
(* d = 0: <<0, 0>> is nan, <<1, 0>> is +inf and <<-1, 0>> is -inf.  A      *)
(* complex number is a pair <<re, im>> of such numbers.  An array is a     *)
(* function from its index set (its shape) to its elements.                *)
(***************************************************************************)
EXTENDS Integers, Sequences, FiniteSets, TLC

\* ------------------------------------------------------------------ bounds
\* longest coordinate array handed to _normalize_localisations
MaxLen == 3
\* largest coordinate magnitude in such an array
MaxCoord == 2
\* largest height and width of the ROI png
MaxDim == 2
\* largest noise level sigma handed to the loader
MaxSigma == 1

\* ------------------------------------------------------------ float model
Abs(n) == IF n < 0 THEN -n ELSE n

Sgn(n) == IF n < 0 THEN -1 ELSE IF n = 0 THEN 0 ELSE 1

RECURSIVE Gcd(_, _)
Gcd(a, b) == IF b = 0 THEN a ELSE Gcd(b, a % b)

\* the float n/d: lowest terms, positive denominator; x/0 is nan or +-inf
Rat(n, d) ==
    IF d = 0 THEN <<Sgn(n), 0>>
    ELSE LET g == Gcd(Abs(n), Abs(d))
         IN  <<(Sgn(d) * n) \div g, Abs(d) \div g>>

Zero == Rat(0, 1)
Two == Rat(2, 1)
NaN == Rat(0, 0)
Half == Rat(1, 2)

IsNaN(a) == a = NaN
IsFinite(a) == a[2] # 0

\* IEEE comparison: every comparison with nan is false
RatLess(a, b) ==
    /\ ~IsNaN(a)
    /\ ~IsNaN(b)
    /\ IF IsFinite(a) /\ IsFinite(b) THEN a[1] * b[2] < b[1] * a[2]
       ELSE IF IsFinite(a) THEN b[1] > 0
       ELSE IF IsFinite(b) THEN a[1] < 0
       ELSE a[1] < b[1]

RatEq(a, b) == ~IsNaN(a) /\ ~IsNaN(b) /\ a = b

RatLeq(a, b) == RatLess(a, b) \/ RatEq(a, b)

RatNeg(a) == <<-a[1], a[2]>>

RatAbs(a) == <<Abs(a[1]), a[2]>>

RatMul(a, b) ==
    IF IsFinite(a) /\ IsFinite(b) THEN Rat(a[1] * b[1], a[2] * b[2])
    ELSE <<Sgn(a[1]) * Sgn(b[1]), 0>>

RatDiv(a, b) ==
    IF IsFinite(a) /\ IsFinite(b) THEN Rat(a[1] * b[2], a[2] * b[1])
    ELSE IF IsFinite(a) THEN (IF IsNaN(b) THEN NaN ELSE Zero)
    ELSE IF IsFinite(b) THEN <<a[1] * (IF b[1] < 0 THEN -1 ELSE 1), 0>>
    ELSE NaN

RatAdd(a, b) ==
    IF IsFinite(a) /\ IsFinite(b) THEN Rat(a[1] * b[2] + b[1] * a[2], a[2] * b[2])
    ELSE IF IsFinite(a) THEN b
    ELSE IF IsFinite(b) THEN a
    ELSE IF a = b THEN a ELSE NaN

\* ndarray.max() / ndarray.min(): nan if the array holds a nan
ArrMax(x) ==
    IF \E i \in DOMAIN x : IsNaN(x[i]) THEN NaN
    ELSE CHOOSE m \in {x[i] : i \in DOMAIN x} :
             \A i \in DOMAIN x : RatLeq(x[i], m)

ArrMin(x) ==
    IF \E i \in DOMAIN x : IsNaN(x[i]) THEN NaN
    ELSE CHOOSE m \in {x[i] : i \in DOMAIN x} :
             \A i \in DOMAIN x : RatLeq(m, x[i])

\* x / s for an array x and a scalar s: a new array
ArrDiv(x, s) == [i \in DOMAIN x |-> RatDiv(x[i], s)]

\* ------------------------------------------------ _normalize_localisations
\* mutant: the tie-break is left out
TieBreak_skipped(loc, Kmax) == loc

\* loc[loc == Kmax] = -Kmax : the assignment through the boolean index
\* writes into the caller's array
TieBreak(loc, Kmax) ==
    [i \in DOMAIN loc |-> IF RatEq(loc[i], Kmax) THEN RatNeg(Kmax) ELSE loc[i]]

\* mutant: the comparison of the two branches is flipped (Kmax > |Kmin|)
normalize_flipped(loc) ==
    LET Kmax == ArrMax(loc)
        Kmin == ArrMin(loc)
    IN  IF RatLess(RatAbs(Kmin), Kmax)
        THEN [arg |-> loc, ret |-> ArrDiv(loc, RatMul(Two, RatAbs(Kmin)))]
        ELSE LET loc1 == TieBreak(loc, Kmax)
             IN  [arg |-> loc1, ret |-> ArrDiv(loc1, RatMul(Two, RatAbs(Kmax)))]

\* mutant: the division is done in place (loc /= ...) in both branches
normalize_inplace(loc) ==
    LET Kmax == ArrMax(loc)
        Kmin == ArrMin(loc)
    IN  IF RatLess(Kmax, RatAbs(Kmin))
        THEN LET q == ArrDiv(loc, RatMul(Two, RatAbs(Kmin)))
             IN  [arg |-> q, ret |-> q]
        ELSE LET q == ArrDiv(TieBreak(loc, Kmax), RatMul(Two, RatAbs(Kmax)))
             IN  [arg |-> q, ret |-> q]

\* The call's effect: arg is the caller's array when the call ends, ret is
\* the array returned.
_normalize_localisations(loc) ==
    LET Kmax == ArrMax(loc)
        Kmin == ArrMin(loc)
    IN  IF RatLess(Kmax, RatAbs(Kmin))
        THEN [arg |-> loc, ret |-> ArrDiv(loc, RatMul(Two, RatAbs(Kmin)))]
        ELSE LET loc1 == TieBreak(loc, Kmax)
             IN  [arg |-> loc1, ret |-> ArrDiv(loc1, RatMul(Two, RatAbs(Kmax)))]

\* ------------------------------------------------------ complex arrays
SumSet(S) ==
    LET RECURSIVE Go(_)
        Go(T) == IF T = {} THEN Zero
                 ELSE LET t == CHOOSE u \in T : TRUE
                      IN  RatAdd(t[2], Go(T \ {t}))
    IN  Go(S)

\* the sum of f[i] over the indices of the array of numbers f
Sum(f) == SumSet({<<i, f[i]>> : i \in DOMAIN f})

\* the square root, for the squares of rationals
ISqrt(n) == CHOOSE r \in 0..n : r * r = n

RatSqrt(a) == Rat(ISqrt(a[1]), ISqrt(a[2]))

CAdd(a, b) == <<RatAdd(a[1], b[1]), RatAdd(a[2], b[2])>>

\* s * z for a real s and a complex z
CScale(s, z) == <<RatMul(s, z[1]), RatMul(s, z[2])>>

\* |z|^2
CAbsSq(z) == RatAdd(RatMul(z[1], z[1]), RatMul(z[2], z[2]))

\* x.astype("complex128") on a real array
AsComplex(x) == [i \in DOMAIN x |-> <<x[i], Zero>>]

\* np.linalg.norm(z)^2 for a complex array: the sum of the |z[i]|^2
CNormSq(z) == Sum([i \in DOMAIN z |-> CAbsSq(z[i])])

\* np.max(np.abs(z))^2 for a complex array
CMaxAbsSq(z) == ArrMax([i \in DOMAIN z |-> CAbsSq(z[i])])

\* 20.0 * np.log(a / b), kept as (a/b)^2 = a2 / b2: the logarithm is
\* strictly increasing, so two such values are equal exactly when their
\* arguments are; x/0 is inf and 0/0 is nan, as numpy has them
Log20Ratio(a2, b2) == <<"20*log(sqrt(q))", RatDiv(a2, b2)>>

\* ------------------------------------------------------------ _l2_normalize
\* x / np.linalg.norm(x) for a real array x
_l2_normalize(x) ==
    ArrDiv(x, RatSqrt(Sum([i \in DOMAIN x |-> RatMul(x[i], x[i])])))

\* ------------------------------------------------- the 2 x 2 image plane
\* The 512 x 512 plane is modelled by a 2 x 2 plane: its discrete Fourier
\* transform has the twiddle factors 1 and -1 only, and stays exact.
ImgIdx == {1, 2}

ImgPos == ImgIdx \X ImgIdx

\* pfft.ifftshift on an axis of even length n: index i reads i + n/2
Shift(i) == IF i = 1 THEN 2 ELSE 1

ifftshift(m) == [p \in ImgPos |-> m[<<Shift(p[1]), Shift(p[2])>>]]

\* (-1)^k
MinusOnePow(k) == IF k % 2 = 0 THEN Rat(1, 1) ELSE Rat(-1, 1)

\* pfft.fft2 of a real 2 x 2 array: F[u,v] = sum_xy a[x,y] (-1)^(ux + vy)
fft2(a) ==
    [p \in ImgPos |->
        <<Sum([q \in ImgPos |->
                  RatMul(a[q], MinusOnePow((p[1] - 1) * (q[1] - 1)
                                           + (p[2] - 1) * (q[2] - 1)))]),
          Zero>>]

\* mask * z : a real array times a complex array, element by element
MaskTimes(mask, z) == [p \in DOMAIN z |-> CScale(mask[p], z[p])]

\* the positions of the plane in row-major order, as np.where lists them
RowMajor == <<<<1, 1>>, <<1, 2>>, <<2, 1>>, <<2, 2>>>>

\* pisap.utils.convert_mask_to_locations: the (row, col) of the entries
\* equal to 1, each index divided by the side of the plane, minus 0.5;
\* one row per sample, two columns
convert_mask_to_locations(mask) ==
    LET hits == SelectSeq(RowMajor, LAMBDA p : mask[p] = Rat(1, 1))
        side == Cardinality(ImgIdx)
    IN  [p \in (1..Len(hits)) \X {1, 2} |->
            RatAdd(Rat(hits[p[1]][p[2]] - 1, side), RatNeg(Half))]

\* ------------------------------------------------------------ ROI mask
\* ~v on an unsigned integer of w bits, bit by bit
RECURSIVE BitNot(_, _)
BitNot(v, w) ==
    IF w = 0 THEN 0 ELSE (1 - (v % 2)) + 2 * BitNot(v \div 2, w - 1)

\* misc.imread(path)[:,:,0] : channel 0 of every pixel
FirstChannel(img) ==
    [i \in DOMAIN img |-> [j \in DOMAIN img[i] |-> img[i][j][1]]]

\* ~a on a uint8 array
Invert(m) == [i \in DOMAIN m |-> [j \in DOMAIN m[i] |-> BitNot(m[i][j], 8)]]

\* mutant: the binarisation is left out
Binarize_skipped(m) == m

\* binary_mask[binary_mask != 0] = 1
Binarize(m) ==
    [i \in DOMAIN m |-> [j \in DOMAIN m[i] |-> IF m[i][j] # 0 THEN 1 ELSE m[i][j]]]

Height(m) == Len(m)
Width(m) == Len(m[1])

\* np.fliplr(m): the columns in reverse order
fliplr(m) == [i \in 1..Height(m) |-> [j \in 1..Width(m) |-> m[i][Width(m) + 1 - j]]]

\* mutant: np.rot90(m, -1), the rotation made clockwise
rot90_clockwise(m) ==
    [i \in 1..Width(m) |-> [j \in 1..Height(m) |-> m[Height(m) + 1 - j][i]]]

\* np.rot90(m): one quarter turn counter-clockwise, the last column of m
\* becoming the first row
rot90(m) == [i \in 1..Width(m) |-> [j \in 1..Height(m) |-> m[j][Width(m) + 1 - i]]]

\* lines 162-163: the binary mask as computed from the png
BinaryMaskOf(img) == Binarize(Invert(FirstChannel(img)))

\* line 173: the mask as returned
ReturnedMask(binary_mask) == rot90(fliplr(binary_mask))

\* ------------------------------------------------------------------ state
VARIABLES
    npc,      \* position of the normalisation scenario
    samples0, \* history: the coordinate array as first handed over
    samples,  \* the caller's coordinate array (an object the callee can write)
    normed0,  \* history: the value returned by the first call
    normed,   \* the array object returned by the first call
    normed2,  \* the array returned by the second call, made on normed
    mpc,      \* position of the ROI mask scenario
    png,      \* the pixels of the ROI png: rows of pixels, a pixel its channels
    bmask,    \* binary_mask after lines 162-163
    roi,      \* the BinaryROIMask returned (line 173)
    pc,          \* position in load_exbaboon_512_retrospection
    sigma,       \* argument sigma
    mask_type,   \* argument mask_type
    acc_factor,  \* argument acc_factor: <<>> is None, <<n>> is the number n
    ref,         \* local ref
    mask,        \* local mask
    loc,         \* local loc
    kspace,      \* local kspace
    noise,       \* local noise
    info,        \* local info, a dict
    binary_mask, \* local binary_mask
    outcome,     \* "running", "returned" or the exception that ended the call
    ret,         \* the tuple returned
    events,      \* the call's file reads, random draws and raises, in order
    kspace0      \* history: kspace as computed or loaded, before the noise

nvars == <<npc, samples0, samples, normed0, normed, normed2>>

mvars == <<mpc, png, bmask, roi>>

lvars == <<pc, sigma, mask_type, acc_factor, ref, mask, loc, kspace, noise,
           info, binary_mask, outcome, ret, events, kspace0>>

vars == <<nvars, mvars, lvars>>

\* a local variable not yet bound, a value not yet returned
Unset == <<>>

\* a scenario that is not the one being run
NIdle ==
    /\ npc = "idle"
    /\ samples0 = <<>>
    /\ samples = <<>>
    /\ normed0 = <<>>
    /\ normed = <<>>
    /\ normed2 = <<>>

MIdle ==
    /\ mpc = "idle"
    /\ png = <<>>
    /\ bmask = <<>>
    /\ roi = <<>>

LIdle ==
    /\ pc = "idle"
    /\ sigma = 0
    /\ mask_type = ""
    /\ acc_factor = <<>>
    /\ ref = Unset
    /\ mask = Unset
    /\ loc = Unset
    /\ kspace = Unset
    /\ noise = Unset
    /\ info = Unset
    /\ binary_mask = Unset
    /\ outcome = "idle"
    /\ ret = Unset
    /\ events = <<>>
    /\ kspace0 = Unset

\* coordinate arrays: 1..MaxLen entries, each in -MaxCoord..MaxCoord
Coords == {Rat(n, 1) : n \in -MaxCoord..MaxCoord}

CoordArrays == UNION {[1..n -> Coords] : n \in 1..MaxLen}

NInit ==
    /\ npc = "start"
    /\ samples0 \in CoordArrays
    /\ samples = samples0
    /\ normed0 = <<>>
    /\ normed = <<>>
    /\ normed2 = <<>>
    /\ MIdle
    /\ LIdle

\* normed = _normalize_localisations(samples)
Normalize ==
    /\ npc = "start"
    /\ LET r == _normalize_localisations(samples)
       IN  /\ samples' = r.arg
           /\ normed' = r.ret
           /\ normed0' = r.ret
    /\ npc' = "normalized"
    /\ UNCHANGED <<samples0, normed2, mvars, lvars>>

\* normed2 = _normalize_localisations(normed)
Renormalize ==
    /\ npc = "normalized"
    /\ LET r == _normalize_localisations(normed)
       IN  /\ normed' = r.arg
           /\ normed2' = r.ret
    /\ npc' = "renormalized"
    /\ UNCHANGED <<samples0, samples, normed0, mvars, lvars>>

NNext == Normalize \/ Renormalize

SpecNorm == NInit /\ [][NNext]_vars

\* ----------------------------------------- claims on the normalisation
AllZero(x) == \A i \in DOMAIN x : x[i] = Zero

InHalfOpen(v) == RatLeq(RatNeg(Half), v) /\ RatLess(v, Half)

\* the branch taken on the array as first handed over
SecondBranch0 == ~RatLess(ArrMax(samples0), RatAbs(ArrMin(samples0)))

\* C3: for every coordinate array that is not entirely zero, every value of
\* the array returned by _normalize_localisations is >= -0.5 and < 0.5, in
\* both branches.
C3_HalfOpenRange ==
    (npc # "start" /\ ~AllZero(samples0)) =>
        /\ DOMAIN normed0 = DOMAIN samples0
        /\ \A i \in DOMAIN normed0 : InHalfOpen(normed0[i])

\* C3 witness: the tie-break branch was taken on an array holding both its
\* maximum and something else, and the maximum was sent to -0.5
C3_Witness ==
    /\ npc = "normalized"
    /\ SecondBranch0
    /\ \E i, j \in DOMAIN samples0 :
          /\ samples0[i] = ArrMax(samples0)
          /\ RatLess(samples0[j], samples0[i])
          /\ normed0[i] = RatNeg(Half)
          /\ RatLess(RatNeg(Half), normed0[j])

\* C6: for every coordinate array that is not entirely zero, normalising
\* the normalised array returns the normalised array, element for element.
C6_Idempotent ==
    (npc = "renormalized" /\ ~AllZero(samples0)) =>
        /\ DOMAIN normed2 = DOMAIN normed0
        /\ \A i \in DOMAIN normed2 : RatEq(normed2[i], normed0[i])

\* C6 witness: a second normalisation of an array whose first normalisation
\* changed it
C6_Witness ==
    /\ npc = "renormalized"
    /\ ~AllZero(samples0)
    /\ normed0 # samples0
    /\ Len(samples0) > 1

\* C10: the call writes into the caller's array only through the tie-break:
\* with Kmax >= |Kmin| exactly the entries equal to Kmax become -Kmax, with
\* Kmax < |Kmin| nothing is written; the quotient is a new array.
C10_InPlaceOnlyTieBreak ==
    npc # "start" =>
        /\ DOMAIN samples = DOMAIN samples0
        /\ \A i \in DOMAIN samples0 :
              samples[i] = IF SecondBranch0 /\ samples0[i] = ArrMax(samples0)
                           THEN RatNeg(ArrMax(samples0))
                           ELSE samples0[i]

\* C10 witness: a call that overwrote one entry of the caller's array, left
\* another alone, and returned something else than the caller's array
C10_Witness ==
    /\ npc = "normalized"
    /\ \E i, j \in DOMAIN samples0 :
          /\ samples[i] # samples0[i]
          /\ samples[j] = samples0[j]
          /\ normed0[j] # samples[j]

\* ------------------------------------------------------- ROI mask scenario
\* 8-bit pixels with their channels; channel 0 is the one read
Pixels == {<<0, 0, 0>>, <<255, 255, 255>>, <<254, 1, 1>>, <<1, 254, 254>>}

Images ==
    UNION {[1..h -> [1..w -> Pixels]] : <<h, w>> \in (1..MaxDim) \X (1..MaxDim)}

MInit ==
    /\ mpc = "start"
    /\ png \in Images
    /\ bmask = <<>>
    /\ roi = <<>>
    /\ NIdle
    /\ LIdle

\* lines 160-163
ReadROIMask ==
    /\ mpc = "start"
    /\ bmask' = BinaryMaskOf(png)
    /\ mpc' = "read"
    /\ UNCHANGED <<png, roi, nvars, lvars>>

\* line 173
ReturnROIMask ==
    /\ mpc = "read"
    /\ roi' = ReturnedMask(bmask)
    /\ mpc' = "returned"
    /\ UNCHANGED <<png, bmask, nvars, lvars>>

MNext == ReadROIMask \/ ReturnROIMask

SpecMask == MInit /\ [][MNext]_vars

\* ------------------------------------------------- claims on the ROI mask
Square(m) == Height(m) = Width(m)

rotate180(m) ==
    [i \in 1..Height(m) |-> [j \in 1..Width(m) |->
        m[Height(m) + 1 - i][Width(m) + 1 - j]]]

mirror_horizontal(m) ==
    [i \in 1..Height(m) |-> [j \in 1..Width(m) |-> m[i][Width(m) + 1 - j]]]

Transpose(m) == [i \in 1..Width(m) |-> [j \in 1..Height(m) |-> m[j][i]]]

C5_ZeroOne ==
    mpc = "returned" =>
        /\ Height(roi) = Width(png)
        /\ Width(roi) = Height(png)
        /\ \A i \in 1..Height(roi) : \A j \in 1..Width(roi) :
              /\ roi[i][j] \in {0, 1}
              /\ roi[i][j] = 0 <=> png[j][i][1] = 255

\* C5 witness: a mask returned with a 0 entry, a 1 entry from a pixel 0 and
\* a 1 entry from a pixel that is neither 0 nor 255
C5_Witness ==
    /\ mpc = "returned"
    /\ \E i, j, k \in 1..Height(roi) : \E l, m, n \in 1..Width(roi) :
          /\ roi[i][l] = 0
          /\ roi[j][m] = 1 /\ png[m][j][1] = 0
          /\ roi[k][n] = 1 /\ png[n][k][1] \notin {0, 255}

\* ------------------------------------------------------------- the loader
\* The bundled files.  Every file is present and well formed; what it
\* holds is drawn from a few small contents.
R2(rows) == [p \in ImgPos |-> Rat(rows[p[1]][p[2]], 1)]

\* Ref_babouin_NEX32.mat, field im_ref: real images, not entirely zero
RefFiles == {R2(<<<<3, 4>>, <<0, 0>>>>), R2(<<<<1, -1>>, <<1, 1>>>>),
             R2(<<<<0, 0>>, <<-2, 0>>>>)}

\* mask_BrainPhantom512_R4.mat, field mask: 0/1 masks with a sampled point
MaskFiles == {R2(<<<<1, 0>>, <<0, 0>>>>), R2(<<<<1, 1>>, <<0, 1>>>>),
              R2(<<<<0, 1>>, <<1, 0>>>>)}

S2(rows) == [p \in (1..Len(rows)) \X {1, 2} |-> Rat(rows[p[1]][p[2]], 1)]

\* samples_*.mat, field samples: one row per sample, two coordinates
SamplesFiles == {S2(<<<<-2, 1>>, <<0, 1>>>>), S2(<<<<2, -1>>, <<2, 0>>>>),
                 S2(<<<<-3, 3>>>>), S2(<<<<1, 1>>, <<-1, -2>>, <<0, 2>>>>)}

C1D(zs) == [i \in 1..Len(zs) |-> <<Rat(zs[i][1], 1), Rat(zs[i][2], 1)>>]

\* values_*.mat, field values: complex samples
ValuesFiles == {C1D(<<<<1, 0>>, <<0, -1>>>>), C1D(<<<<2, 1>>, <<0, 0>>, <<-1, 3>>>>)}

\* Ref_N512_NEX32_mask.png
PngFiles == {<<<<<<255, 255, 255>>, <<0, 0, 0>>>>, <<<<1, 1, 1>>, <<255, 255, 255>>>>>>,
             <<<<<<0, 0, 0>>, <<254, 254, 254>>>>, <<<<255, 255, 255>>, <<0, 0, 0>>>>>>}

\* what randn() + 1.j*randn() may draw for one element
NoiseDraws == {<<Rat(1, 1), Rat(-1, 1)>>, <<Rat(-2, 1), Rat(1, 2)>>}

Sigmas == {Rat(n, 1) : n \in 0..MaxSigma}

MaskTypes == {"cartesianR4", "radial", "radial-sparkling", "spiral"}

None == <<>>

AccFactors == {None, <<4>>, <<8>>, <<15>>}

Read(file) == [kind |-> "read", what |-> file]

Raise(exc) == [kind |-> "raise", what |-> exc]

Randn(shape) == [kind |-> "randn", what |-> shape]

\* d[k] = v, and d.update(e)
DictSet(d, k, v) == (k :> v) @@ d

DictUpdate(d, e) == e @@ d

LInit ==
    /\ pc = "ref"
    /\ sigma \in Sigmas
    /\ mask_type \in MaskTypes
    /\ acc_factor \in AccFactors
    /\ ref = Unset
    /\ mask = Unset
    /\ loc = Unset
    /\ kspace = Unset
    /\ noise = Unset
    /\ info = Unset
    /\ binary_mask = Unset
    /\ outcome = "running"
    /\ ret = Unset
    /\ events = <<>>
    /\ kspace0 = Unset
    /\ NIdle
    /\ MIdle

\* lines 86-88
LoadRef ==
    /\ pc = "ref"
    /\ \E im_ref \in RefFiles : ref' = _l2_normalize(im_ref)
    /\ events' = Append(events, Read("Ref_babouin_NEX32.mat"))
    /\ pc' = "dispatch"
    /\ UNCHANGED <<sigma, mask_type, acc_factor, mask, loc, kspace, noise, info,
                   binary_mask, outcome, ret, kspace0, nvars, mvars>>

\* mutant: the error path hands back what has been loaded so far instead
\* of raising
ReturnWhatIsLoaded ==
    /\ ret' = [ref |-> ref, loc |-> loc, kspace |-> kspace,
               binary_mask |-> binary_mask, info |-> info]
    /\ outcome' = "returned"
    /\ events' = events
    /\ pc' = "done"
    /\ UNCHANGED <<sigma, mask_type, acc_factor, ref, mask, loc, kspace, noise,
                   info, binary_mask, kspace0, nvars, mvars>>

\* a raise ValueError(...): the call ends, nothing is returned
RaiseValueError ==
    /\ outcome' = "ValueError"
    /\ events' = Append(events, Raise("ValueError"))
    /\ pc' = "done"
    /\ UNCHANGED <<sigma, mask_type, acc_factor, ref, mask, loc, kspace, noise,
                   info, binary_mask, ret, kspace0, nvars, mvars>>

\* mutant: the mask file is read before acc_factor is checked
RaiseCartesianAccFactor_afterRead ==
    /\ pc = "dispatch"
    /\ mask_type = "cartesianR4"
    /\ acc_factor # None
    /\ outcome' = "ValueError"
    /\ events' = events \o <<Read("mask_BrainPhantom512_R4.mat"), Raise("ValueError")>>
    /\ pc' = "done"
    /\ UNCHANGED <<sigma, mask_type, acc_factor, ref, mask, loc, kspace, noise,
                   info, binary_mask, ret, kspace0, nvars, mvars>>

\* lines 91-95
RaiseCartesianAccFactor ==
    /\ pc = "dispatch"
    /\ mask_type = "cartesianR4"
    /\ acc_factor # None
    /\ RaiseValueError

\* lines 91, 96-100
LoadCartesian ==
    /\ pc = "dispatch"
    /\ mask_type = "cartesianR4"
    /\ ~(acc_factor # None)
    /\ \E m \in MaskFiles :
          /\ mask' = ifftshift(m)
          /\ loc' = convert_mask_to_locations(mask')
          /\ kspace' = MaskTimes(mask', fft2(ref))
    /\ kspace0' = kspace'
    /\ events' = Append(events, Read("mask_BrainPhantom512_R4.mat"))
    /\ pc' = "noise"
    /\ UNCHANGED <<sigma, mask_type, acc_factor, ref, noise, info, binary_mask,
                   outcome, ret, nvars, mvars>>

\* the two reads of a non-Cartesian branch: the samples, normalised, then
\* the values
LoadSamplesAndValues(samplesfile, valuesfile) ==
    /\ \E smp \in SamplesFiles : loc' = _normalize_localisations(smp).ret
    /\ \E val \in ValuesFiles : kspace' = val
    /\ kspace0' = kspace'
    /\ events' = events \o <<Read(samplesfile), Read(valuesfile)>>
    /\ pc' = "noise"
    /\ UNCHANGED <<sigma, mask_type, acc_factor, ref, mask, noise, info,
                   binary_mask, outcome, ret, nvars, mvars>>

\* mutant: every acc_factor other than 8 is served the x15 files
LoadRadial_anyAccFactor ==
    /\ pc = "dispatch"
    /\ mask_type # "cartesianR4"
    /\ mask_type = "radial"
    /\ IF acc_factor = <<8>>
       THEN LoadSamplesAndValues("samples_radial_x8_64x3072.mat",
                                 "values_radial_x8_64x3072.mat")
       ELSE LoadSamplesAndValues("samples_radial_x15_34x3072.mat",
                                 "values_radial_x15_34x3072.mat")

\* lines 102-117
LoadRadial ==
    /\ pc = "dispatch"
    /\ mask_type # "cartesianR4"
    /\ mask_type = "radial"
    /\ IF acc_factor = <<8>>
       THEN LoadSamplesAndValues("samples_radial_x8_64x3072.mat",
                                 "values_radial_x8_64x3072.mat")
       ELSE /\ acc_factor = <<15>>
            /\ LoadSamplesAndValues("samples_radial_x15_34x3072.mat",
                                    "values_radial_x15_34x3072.mat")

\* lines 102, 119-121
RaiseRadialAccFactor ==
    /\ pc = "dispatch"
    /\ mask_type # "cartesianR4"
    /\ mask_type = "radial"
    /\ acc_factor # <<8>>
    /\ acc_factor # <<15>>
    /\ RaiseValueError

\* lines 123-138
LoadSparkling ==
    /\ pc = "dispatch"
    /\ mask_type \notin {"cartesianR4", "radial"}
    /\ mask_type = "radial-sparkling"
    /\ IF acc_factor = <<8>>
       THEN LoadSamplesAndValues("samples_sparkling_x8_64x3072.mat",
                                 "values_sparkling_x8_64x3072.mat")
       ELSE /\ acc_factor = <<15>>
            /\ LoadSamplesAndValues("samples_sparkling_x15_34x3072.mat",
                                    "values_sparkling_x15_34x3072.mat")

\* lines 123, 140-142
RaiseSparklingAccFactor ==
    /\ pc = "dispatch"
    /\ mask_type \notin {"cartesianR4", "radial"}
    /\ mask_type = "radial-sparkling"
    /\ acc_factor # <<8>>
    /\ acc_factor # <<15>>
    /\ RaiseValueError

\* lines 144-147
RaiseMaskType ==
    /\ pc = "dispatch"
    /\ mask_type \notin {"cartesianR4", "radial", "radial-sparkling"}
    /\ RaiseValueError

\* mutant: the draw is not scaled by sigma
CreateNoise_unscaled ==
    /\ pc = "noise"
    /\ \E draw \in [DOMAIN kspace -> NoiseDraws] :
          noise' = [i \in DOMAIN kspace |-> draw[i]]
    /\ events' = Append(events, Randn(DOMAIN kspace))
    /\ pc' = "info"
    /\ UNCHANGED <<sigma, mask_type, acc_factor, ref, mask, loc, kspace, info,
                   binary_mask, outcome, ret, kspace0, nvars, mvars>>

\* line 149: noise = sigma * (randn(*kspace.shape) + 1.j*randn(*kspace.shape))
CreateNoise ==
    /\ pc = "noise"
    /\ \E draw \in [DOMAIN kspace -> NoiseDraws] :
          noise' = [i \in DOMAIN kspace |-> CScale(sigma, draw[i])]
    /\ events' = Append(events, Randn(DOMAIN kspace))
    /\ pc' = "info"
    /\ UNCHANGED <<sigma, mask_type, acc_factor, ref, mask, loc, kspace, info,
                   binary_mask, outcome, ret, kspace0, nvars, mvars>>

\* mutant: snr and psnr are taken from the k-space with the noise in it
SaveNoiseLevel_ofNoisy ==
    /\ pc = "info"
    /\ LET noisy == [i \in DOMAIN kspace |-> CAdd(kspace[i], noise[i])]
           info1 == [k \in {"sigma"} |-> sigma]
           info2 == DictSet(info1, "snr",
                            Log20Ratio(CNormSq(noisy), CNormSq(noise)))
       IN  info' = DictSet(info2, "psnr",
                           Log20Ratio(CMaxAbsSq(noisy), CNormSq(noise)))
    /\ pc' = "add_noise"
    /\ UNCHANGED <<sigma, mask_type, acc_factor, ref, mask, loc, kspace, noise,
                   binary_mask, outcome, ret, events, kspace0, nvars, mvars>>

\* lines 152-154
SaveNoiseLevel ==
    /\ pc = "info"
    /\ LET info1 == [k \in {"sigma"} |-> sigma]
           info2 == DictSet(info1, "snr",
                            Log20Ratio(CNormSq(kspace), CNormSq(noise)))
       IN  info' = DictSet(info2, "psnr",
                           Log20Ratio(CMaxAbsSq(kspace), CNormSq(noise)))
    /\ pc' = "add_noise"
    /\ UNCHANGED <<sigma, mask_type, acc_factor, ref, mask, loc, kspace, noise,
                   binary_mask, outcome, ret, events, kspace0, nvars, mvars>>

\* line 157
AddNoise ==
    /\ pc = "add_noise"
    /\ kspace' = [i \in DOMAIN kspace |-> CAdd(kspace[i], noise[i])]
    /\ pc' = "binary_mask"
    /\ UNCHANGED <<sigma, mask_type, acc_factor, ref, mask, loc, noise, info,
                   binary_mask, outcome, ret, events, kspace0, nvars, mvars>>

\* lines 160-163
LoadBinaryMask ==
    /\ pc = "binary_mask"
    /\ \E img \in PngFiles : binary_mask' = BinaryMaskOf(img)
    /\ events' = Append(events, Read("Ref_N512_NEX32_mask.png"))
    /\ pc' = "update_info"
    /\ UNCHANGED <<sigma, mask_type, acc_factor, ref, mask, loc, kspace, noise,
                   info, outcome, ret, kspace0, nvars, mvars>>

\* the fixed acquisition constants of lines 166-168
AcquisitionConstants ==
    [k \in {"N", "FOV(mm)", "TE(ms)", "TR(ms)", "Tobs(ms)", "Angle(degree)",
            "Slice-thickness(mm)", "Contrast"} |->
        CASE k = "N" -> 512
          [] k = "FOV(mm)" -> 200
          [] k = "TE(ms)" -> 30
          [] k = "TR(ms)" -> 550
          [] k = "Tobs(ms)" -> Rat(3072, 100)
          [] k = "Angle(degree)" -> 25
          [] k = "Slice-thickness(mm)" -> 3
          [] k = "Contrast" -> "T2*w"]

\* lines 166-170
UpdateInfo ==
    /\ pc = "update_info"
    /\ info' = DictSet(DictSet(DictUpdate(info, AcquisitionConstants),
                               "mask_type", mask_type),
                       "acc_factor", acc_factor)
    /\ pc' = "return"
    /\ UNCHANGED <<sigma, mask_type, acc_factor, ref, mask, loc, kspace, noise,
                   binary_mask, outcome, ret, events, kspace0, nvars, mvars>>

\* lines 172-173; loc and kspace already hold doubles and complex doubles
Return ==
    /\ pc = "return"
    /\ ret' = [ref |-> AsComplex(ref), loc |-> loc, kspace |-> kspace,
               binary_mask |-> ReturnedMask(binary_mask), info |-> info]
    /\ outcome' = "returned"
    /\ pc' = "done"
    /\ UNCHANGED <<sigma, mask_type, acc_factor, ref, mask, loc, kspace, noise,
                   info, binary_mask, events, kspace0, nvars, mvars>>

Next ==
    \/ LoadRef
    \/ RaiseCartesianAccFactor
    \/ LoadCartesian
    \/ LoadRadial
    \/ RaiseRadialAccFactor
    \/ LoadSparkling
    \/ RaiseSparklingAccFactor
    \/ RaiseMaskType
    \/ CreateNoise
    \/ SaveNoiseLevel
    \/ AddNoise
    \/ LoadBinaryMask
    \/ UpdateInfo
    \/ Return

Spec == LInit /\ [][Next]_vars

\* ---------------------------------------------------- claims on the loader
ValidCombinations ==
    {<<"cartesianR4", None>>, <<"radial", <<8>>>>, <<"radial", <<15>>>>,
     <<"radial-sparkling", <<8>>>>, <<"radial-sparkling", <<15>>>>}

Valid == <<mask_type, acc_factor>> \in ValidCombinations

\* C1: the call ends in a ValueError, returning nothing, for every
\* (mask_type, acc_factor) outside the five valid combinations, and raises
\* no ValueError for any of the five.
C1_ValidCombinations ==
    /\ pc = "done" => (outcome = "ValueError" <=> ~Valid)
    /\ pc = "done" => (outcome = "returned" <=> Valid)
    /\ outcome = "ValueError" => (pc = "done" /\ ret = Unset)
    /\ pc \notin {"ref", "dispatch", "done"} => Valid
    /\ (pc = "dispatch" /\ ~Valid) =>
           ENABLED (RaiseCartesianAccFactor \/ RaiseRadialAccFactor
                    \/ RaiseSparklingAccFactor \/ RaiseMaskType)

\* C1 witness: a radial call without acc_factor that ended in a ValueError
C1_Witness ==
    /\ pc = "done"
    /\ mask_type = "radial"
    /\ acc_factor = None
    /\ outcome = "ValueError"

Reads == {k \in 1..Len(events) : events[k].kind = "read"}

\* C2 as claimed: no file read precedes the ValueError in the call's events.
C2_NoReadBeforeError ==
    outcome = "ValueError" => Reads = {}

\* C2 as amended: when the call ends in a ValueError, the reference image,
\* read before the arguments are looked at, is the only file read: no mask,
\* samples, values or png file is read before the error.
C2_OnlyRefReadBeforeError ==
    outcome = "ValueError" =>
        events = <<Read("Ref_babouin_NEX32.mat"), Raise("ValueError")>>

\* C2 witness: a Cartesian call with an acc_factor that ended in a ValueError
C2_Witness ==
    /\ outcome = "ValueError"
    /\ mask_type = "cartesianR4"
    /\ acc_factor = <<4>>

CZero == <<Zero, Zero>>

\* C7: a call with sigma = 0.0 that returns has info['sigma'] = 0.0, an
\* all-zero noise array, and returns the k-space as it was before the noise.
C7_SigmaZero ==
    (outcome = "returned" /\ sigma = Zero) =>
        /\ ret.info["sigma"] = Zero
        /\ \A i \in DOMAIN noise : noise[i] = CZero
        /\ DOMAIN ret.kspace = DOMAIN kspace0
        /\ \A i \in DOMAIN kspace0 : ret.kspace[i] = kspace0[i]

\* C7 witness: a Cartesian call with sigma = 0.0 that returned a k-space
\* that is not entirely zero
C7_Witness ==
    /\ outcome = "returned"
    /\ sigma = Zero
    /\ mask_type = "cartesianR4"
    /\ \E i \in DOMAIN ret.kspace : ret.kspace[i] # CZero

InfoKeys ==
    {"sigma", "snr", "psnr", "N", "FOV(mm)", "TE(ms)", "TR(ms)", "Tobs(ms)",
     "Angle(degree)", "Slice-thickness(mm)", "Contrast", "mask_type", "acc_factor"}

\* C8: a call returns the complete 5-tuple, with every key of info set, or
\* ends in an error with nothing returned.
C8_NoPartialResult ==
    /\ outcome = "returned" =>
          /\ pc = "done"
          /\ DOMAIN ret = {"ref", "loc", "kspace", "binary_mask", "info"}
          /\ ret.ref # Unset
          /\ ret.loc # Unset
          /\ ret.kspace # Unset
          /\ ret.binary_mask # Unset
          /\ ret.info # Unset
          /\ DOMAIN ret.info = InfoKeys
          /\ \A k \in DOMAIN AcquisitionConstants :
                ret.info[k] = AcquisitionConstants[k]
          /\ ret.info["mask_type"] = mask_type
          /\ ret.info["acc_factor"] = acc_factor
    /\ outcome # "returned" => ret = Unset
    /\ pc = "done" => outcome \in {"returned", "ValueError"}

\* C8 witness: a radial-sparkling call that returned its 5-tuple, info complete
C8_Witness ==
    /\ outcome = "returned"
    /\ mask_type = "radial-sparkling"
    /\ DOMAIN ret.info = InfoKeys

Noisy == [i \in DOMAIN kspace0 |-> CAdd(kspace0[i], noise[i])]

Draws == {k \in 1..Len(events) : events[k].kind = "randn"}

\* C9: snr and psnr are computed from the k-space before the noise and from
\* the noise array that is added to it afterwards; the noise is drawn once,
\* with the shape of the k-space.
C9_SnrBeforeNoise ==
    /\ info # Unset =>
          /\ info["snr"] = Log20Ratio(CNormSq(kspace0), CNormSq(noise))
          /\ info["psnr"] = Log20Ratio(CMaxAbsSq(kspace0), CNormSq(noise))
    /\ pc \in {"noise", "info", "add_noise"} => kspace = kspace0
    /\ pc = "add_noise" => info # Unset
    /\ pc \in {"binary_mask", "update_info", "return"} =>
          (info # Unset /\ kspace = Noisy)
    /\ outcome = "returned" => (ret.kspace = Noisy /\ ret.info = info)
    /\ noise = Unset => Draws = {}
    /\ noise # Unset =>
          /\ DOMAIN noise = DOMAIN kspace0
          /\ Cardinality(Draws) = 1
          /\ \A k \in Draws : events[k].what = DOMAIN kspace0

\* C9 witness: a call with sigma > 0 that returned a k-space changed by the
\* noise
C9_Witness ==
    /\ outcome = "returned"
    /\ sigma # Zero
    /\ ret.kspace # kspace0
    /\ ret.info["snr"] = Log20Ratio(CNormSq(kspace0), CNormSq(noise))

====
